---- MODULE Spec2Model ----
(***************************************************************************)
(* Generalized Procrustes analysis, src/helper.py: generalized_procrustes. *)
(*                                                                         *)
(* A vertex array (s.v, ref_v, old_ref_v) is a sequence of coordinates,    *)
(* the array flattened.  Coordinates are exact fixed-point numbers: the    *)
(* integer x stands for the real x / One.  Every mesh coordinate is a      *)
(* multiple of One and One is a multiple of every collection size, so the  *)
(* arithmetic mean of line 22 is exact.  Rounding of floating point is not *)
(* modelled.                                                               *)
(*                                                                         *)
(* align is imported from another package (line 2).  It is a pure          *)
(* function of its two arguments; which function it is, is chosen in Init  *)
(* (variable prim) and any call of it may raise.                           *)
(***************************************************************************)
EXTENDS Integers, Sequences, FiniteSets, TLC

VARIABLES
  surf,         \* the list of surfaces: surf[j] is the vertex array s.v of mesh j
  ref_v,        \* local ref_v
  old_ref_v,    \* local old_ref_v
  n_steps,      \* local n_steps
  i,            \* position of the for loop of line 18 (1-based)
  pc,           \* "start", "while", "for", "done", "failed"
  err,          \* the exception that left the function, "none" if none
  prim,         \* the behaviour of the imported align
  again,        \* TRUE once the caller has called a second time
  entry,        \* history: surf when the current call was entered
  iter_surf,    \* history: surf when the current iteration began
  iter_ref,     \* history: ref_v when the current iteration began
  writes,       \* history: writes[j] = assignments to mesh j's s.v in this call
  n_align,      \* history: calls of align in this call
  n_mean,       \* history: evaluations of np.mean in this call
  align_failed, \* history: align has raised in this call
  how,          \* history: how the current call left the loop
  first_how     \* history: how the first call left the loop

vars == <<surf, ref_v, old_ref_v, n_steps, i, pc, err, prim, again, entry,
          iter_surf, iter_ref, writes, n_align, n_mean, align_failed, how,
          first_how>>

----------------------------------------------------------------------------
(* Bounds of the model and constants of the program *)

\* largest number of meshes in the list
MaxMeshes == 3

\* largest length of a flattened vertex array; length 0 is a mesh without vertices
MaxLen == 2

\* line 14: the iteration cap, 1000 > n_steps
MaxIter == 1000

\* line 14: the tolerance 1e-11, squared, in squared fixed-point units and
\* rounded down.  One unit is 1 / One with One < 10^11, so the square of a
\* distance, a whole number of squared units, exceeds the tolerance's square
\* exactly when it exceeds 0.
TolSq == 0

RECURSIVE Fact(_)
Fact(n) == IF n <= 1 THEN 1 ELSE n * Fact(n - 1)

\* the number 1.0 in fixed-point units
One == Fact(MaxMeshes)

Coords == {0, 1}

\* meshes with coordinates of mixed sign and magnitude
Palette == {<<3, 3>>, <<1, -9>>, <<-1, 1>>}

Shapes(L) == [1..L -> Coords] \cup {p \in Palette : Len(p) = L}

Scaled(a) == [k \in 1..Len(a) |-> a[k] * One]

Prims == {"rot", "ident", "osc"}

----------------------------------------------------------------------------
(* Array arithmetic *)

RECURSIVE SumTo(_, _)
SumTo(f, n) == IF n = 0 THEN 0 ELSE f[n] + SumTo(f, n - 1)

Dot(a, b) == SumTo([k \in 1..Len(a) |-> a[k] * b[k]], Len(a))

Neg(a) == [k \in 1..Len(a) |-> 0 - a[k]]

Zeros(L) == [k \in 1..L |-> 0]

Ones(L) == [k \in 1..L |-> One]

\* np.linalg.norm(a - b) squared
NormSq(a, b) == SumTo([k \in 1..Len(a) |-> (a[k] - b[k]) * (a[k] - b[k])], Len(a))

----------------------------------------------------------------------------
(* The imported alignment primitive: the value align(src, tgt) returns.     *)
(*   rot    best fit of src onto tgt over the rotations {I, -I}             *)
(*   ident  leaves src as it is                                             *)
(*   osc    pathological: ignores src and answers with a shape that is      *)
(*          never its target                                                *)

AlignOut(p, src, tgt) ==
  CASE p = "rot"   -> IF Dot(src, tgt) >= 0 THEN src ELSE Neg(src)
    [] p = "ident" -> src
    [] p = "osc"   -> IF tgt = Zeros(Len(src)) THEN Ones(Len(src)) ELSE Zeros(Len(src))

----------------------------------------------------------------------------
(* The pieces of generalized_procrustes *)

\* variant: the reference is taken from the last mesh
InitRefLast(s) == s[Len(s)]

\* line 9: ref_v = np.copy(surf[0].v)
InitRef(s) == s[1]

\* variant: the sentinel is a plain copy of the reference
SentinelNoShift(r) == r

\* line 10: old_ref_v = np.copy(ref_v + 1)
Sentinel(r) == [k \in 1..Len(r) |-> r[k] + One]

\* variant: the cap is compared with >=
LoopCondOffByOne(r, o, k) == NormSq(r, o) > TolSq /\ MaxIter >= k

\* line 14: the loop condition
LoopCond(r, o, k) == NormSq(r, o) > TolSq /\ MaxIter > k

\* variant: the for loop stops before the last mesh
ForDoneEarly(s, j) == j >= Len(s)

\* line 18: the for loop has passed the last mesh
ForDone(s, j) == j > Len(s)

\* variant: mesh j is aligned onto the first mesh's current vertices
AlignMeshAtFirst(p, s, r, j) == [s EXCEPT ![j] = AlignOut(p, s[j], s[1])]

\* variant: mesh j is aligned onto its predecessor's current vertices
AlignMeshAtPrev(p, s, r, j) ==
  [s EXCEPT ![j] = AlignOut(p, s[j], IF j = 1 THEN r ELSE s[j - 1])]

\* line 19: s.v = np.array(align(s.v, ref_v)) for mesh j
AlignMeshAt(p, s, r, j) == [s EXCEPT ![j] = AlignOut(p, s[j], r)]

\* variant: the sum over the meshes is not divided
MeanSum(s) ==
  [k \in 1..Len(s[1]) |-> SumTo([j \in 1..Len(s) |-> s[j][k]], Len(s))]

\* line 22: ref_v = np.mean(np.array([s.v for s in surf]), axis=0)
Mean(s) ==
  [k \in 1..Len(s[1]) |-> SumTo([j \in 1..Len(s) |-> s[j][k]], Len(s)) \div Len(s)]

----------------------------------------------------------------------------
Init ==
  /\ prim \in Prims
  /\ \E n \in 0..MaxMeshes, L \in 0..MaxLen :
       surf \in [1..n -> {Scaled(a) : a \in Shapes(L)}]
  \* osc never reads its source: the meshes behind the first add nothing
  /\ prim = "osc" => \A j \in 1..Len(surf) : surf[j] = surf[1]
  /\ ref_v = <<>>
  /\ old_ref_v = <<>>
  /\ n_steps = 0
  /\ i = 0
  /\ pc = "start"
  /\ err = "none"
  /\ again = FALSE
  /\ entry = surf
  /\ iter_surf = surf
  /\ iter_ref = <<>>
  /\ writes = [j \in 1..Len(surf) |-> 0]
  /\ n_align = 0
  /\ n_mean = 0
  /\ align_failed = FALSE
  /\ how = "none"
  /\ first_how = "none"

\* line 9 on an empty list: surf[0] raises IndexError
EnterEmpty ==
  /\ pc = "start"
  /\ Len(surf) = 0
  /\ pc' = "failed"
  /\ err' = "IndexError"
  /\ UNCHANGED <<surf, ref_v, old_ref_v, n_steps, i, prim, again, entry, iter_surf,
                 iter_ref, writes, n_align, n_mean, align_failed, how, first_how>>

\* lines 9-12
Enter ==
  /\ pc = "start"
  /\ Len(surf) > 0
  /\ ref_v' = InitRef(surf)
  /\ old_ref_v' = Sentinel(InitRef(surf))
  /\ n_steps' = 0
  /\ pc' = "while"
  /\ UNCHANGED <<surf, i, err, prim, again, entry, iter_surf, iter_ref, writes,
                 n_align, n_mean, align_failed, how, first_how>>

\* lines 14-16: the condition holds, the body begins
LoopEnter ==
  /\ pc = "while"
  /\ LoopCond(ref_v, old_ref_v, n_steps)
  /\ n_steps' = n_steps + 1
  /\ old_ref_v' = ref_v
  /\ i' = 1
  /\ pc' = "for"
  /\ iter_surf' = surf
  /\ iter_ref' = ref_v
  /\ UNCHANGED <<surf, ref_v, err, prim, again, entry, writes, n_align, n_mean,
                 align_failed, how, first_how>>

\* line 14: the condition fails, the function returns None
LoopExit ==
  /\ pc = "while"
  /\ ~LoopCond(ref_v, old_ref_v, n_steps)
  /\ pc' = "done"
  /\ how' = IF NormSq(ref_v, old_ref_v) > TolSq THEN "cap" ELSE "converged"
  /\ first_how' = IF again THEN first_how ELSE how'
  /\ UNCHANGED <<surf, ref_v, old_ref_v, n_steps, i, err, prim, again, entry,
                 iter_surf, iter_ref, writes, n_align, n_mean, align_failed>>

\* lines 18-19: align returns and the mesh is overwritten
AlignMesh ==
  /\ pc = "for"
  /\ ~ForDone(surf, i)
  /\ surf' = AlignMeshAt(prim, surf, ref_v, i)
  /\ writes' = [writes EXCEPT ![i] = @ + 1]
  /\ n_align' = n_align + 1
  /\ i' = i + 1
  /\ UNCHANGED <<ref_v, old_ref_v, n_steps, pc, err, prim, again, entry, iter_surf,
                 iter_ref, n_mean, align_failed, how, first_how>>

\* variant: the exception is swallowed and the loop goes on with the next mesh
AlignRaiseSwallow ==
  /\ pc = "for"
  /\ ~ForDone(surf, i)
  /\ n_align' = n_align + 1
  /\ align_failed' = TRUE
  /\ i' = i + 1
  /\ UNCHANGED <<surf, ref_v, old_ref_v, n_steps, pc, err, prim, again, entry,
                 iter_surf, iter_ref, writes, n_mean, how, first_how>>

\* line 19: align raises; nothing catches it
AlignRaise ==
  /\ pc = "for"
  /\ ~ForDone(surf, i)
  /\ n_align' = n_align + 1
  /\ align_failed' = TRUE
  /\ pc' = "failed"
  /\ err' = "AlignError"
  /\ UNCHANGED <<surf, ref_v, old_ref_v, n_steps, i, prim, again, entry, iter_surf,
                 iter_ref, writes, n_mean, how, first_how>>

\* variant: the mean reads the vertices the meshes had before the pass
ComputeMeanStale ==
  /\ pc = "for"
  /\ ForDone(surf, i)
  /\ ref_v' = Mean(iter_surf)
  /\ n_mean' = n_mean + 1
  /\ pc' = "while"
  /\ UNCHANGED <<surf, old_ref_v, n_steps, i, err, prim, again, entry, iter_surf,
                 iter_ref, writes, n_align, align_failed, how, first_how>>

\* line 22
ComputeMean ==
  /\ pc = "for"
  /\ ForDone(surf, i)
  /\ ref_v' = Mean(surf)
  /\ n_mean' = n_mean + 1
  /\ pc' = "while"
  /\ UNCHANGED <<surf, old_ref_v, n_steps, i, err, prim, again, entry, iter_surf,
                 iter_ref, writes, n_align, align_failed, how, first_how>>

\* after a call that converged, the caller calls generalized_procrustes(surf)
\* once more on the same list
CallAgain ==
  /\ pc = "done"
  /\ how = "converged"
  /\ ~again
  /\ again' = TRUE
  /\ pc' = "start"
  /\ entry' = surf
  /\ writes' = [j \in 1..Len(surf) |-> 0]
  /\ n_align' = 0
  /\ n_mean' = 0
  /\ how' = "none"
  /\ UNCHANGED <<surf, ref_v, old_ref_v, n_steps, i, err, prim, iter_surf, iter_ref,
                 align_failed, first_how>>

Next ==
  \/ EnterEmpty
  \/ Enter
  \/ LoopEnter
  \/ LoopExit
  \/ AlignMesh
  \/ AlignRaise
  \/ ComputeMean
  \/ CallAgain

Spec == Init /\ [][Next]_vars

\* the interpreter always takes the next step of a running call
FairSpec == Spec /\ WF_vars(Next)

----------------------------------------------------------------------------
(* Properties *)

N == Len(surf)

Meshes == 1..Len(surf)

\* every mesh of the list s has the vertices of the first one
AllSame(s) == \A j \in 1..Len(s) : s[j] = s[1]

\* the primitive maps the shape a aligned onto itself to itself
SelfIdentity(p, a) == AlignOut(p, a, a) = a

\* mesh j holds the result of aligning its vertices of the iteration's start
\* onto the reference of the iteration's start
AlignedInIter(j) == surf[j] = AlignOut(prim, iter_surf[j], iter_ref)

\* C1: the call terminates, n_steps never exceeds 1000, and a call whose
\* reference has not stabilised leaves the loop after exactly 1000 iterations,
\* returning normally; a return before the cap is a return by convergence.
C1_Cap ==
  /\ <>[](pc \in {"done", "failed"})
  /\ [](n_steps <= MaxIter)
  /\ [](pc = "done" /\ how = "cap" => n_steps = MaxIter /\ err = "none")
  /\ [](pc = "done" /\ n_steps < MaxIter => how = "converged")

C1_Witness == pc = "done" /\ how = "cap" /\ n_steps = MaxIter /\ err = "none"

\* C2 as stated: identical meshes and a primitive that is the identity on
\* them give exactly one iteration and leave every mesh as it was on input.
C2_Original ==
  (pc = "done" /\ ~again /\ AllSame(entry) /\ SelfIdentity(prim, entry[1]))
    => (n_steps = 1 /\ surf = entry)

\* C2 amended: the same, for meshes that have at least one coordinate.
C2_OneIteration ==
  (pc = "done" /\ ~again /\ AllSame(entry) /\ SelfIdentity(prim, entry[1])
     /\ Len(entry[1]) >= 1)
    => (n_steps = 1 /\ surf = entry)

C2_Witness ==
  /\ pc = "done" /\ ~again /\ N >= 2 /\ AllSame(entry) /\ Len(entry[1]) >= 1
  /\ SelfIdentity(prim, entry[1]) /\ entry[1] # Zeros(Len(entry[1]))
  /\ n_steps = 1 /\ surf = entry

\* C3 as stated: a second call after a call that converged leaves every mesh
\* as the first call left it.
C3_Original ==
  (pc = "done" /\ again /\ first_how = "converged") => surf = entry

\* the primitive returns every mesh of the list s unchanged when it is
\* aligned onto the target t
FixedOnto(p, s, t) == \A j \in 1..Len(s) : AlignOut(p, s[j], t) = s[j]

\* C3 amended: the second call starts from the first mesh's vertices, and it
\* leaves every mesh as the first call left it when the primitive returns
\* each of these meshes unchanged aligned onto the first of them and aligned
\* onto their mean.
C3_SecondCall ==
  /\ (pc = "while" /\ again /\ n_steps = 0) => ref_v = entry[1]
  /\ (pc = "done" /\ again /\ first_how = "converged"
        /\ FixedOnto(prim, entry, entry[1]) /\ FixedOnto(prim, entry, Mean(entry)))
       => surf = entry

C3_Witness ==
  /\ pc = "done" /\ again /\ first_how = "converged" /\ N >= 3
  /\ ~AllSame(entry) /\ Mean(entry) # entry[1] /\ n_steps = 2
  /\ FixedOnto(prim, entry, entry[1]) /\ FixedOnto(prim, entry, Mean(entry))
  /\ surf = entry

\* C4: every iteration writes every mesh exactly once, in collection order;
\* on return each mesh has been written as often as there were iterations.
C4_Writes ==
  /\ pc \in {"while", "done"} => \A j \in Meshes : writes[j] = n_steps
  /\ pc = "for" =>
       \A j \in Meshes : writes[j] = IF j < i THEN n_steps ELSE n_steps - 1

C4_Witness ==
  /\ pc = "done" /\ how = "cap" /\ N >= 2 /\ surf # entry
  /\ \A j \in Meshes : writes[j] = MaxIter

\* C5: when align raises at mesh i the call ends with that failure and takes
\* no further step; the reference and the mean count are those of the
\* iteration's start, the meshes before i are aligned, mesh i and the meshes
\* after it are as they were when the iteration began.
C5_Failure ==
  align_failed =>
    /\ pc = "failed" /\ err = "AlignError"
    /\ ~ENABLED Next
    /\ ref_v = iter_ref /\ n_mean = n_steps - 1
    /\ \A j \in Meshes : IF j < i THEN AlignedInIter(j) ELSE surf[j] = iter_surf[j]

C5_Witness ==
  /\ align_failed /\ pc = "failed" /\ N >= 3 /\ i = 2 /\ n_steps >= 2
  /\ surf[1] # iter_surf[1]

\* C6: an empty list is refused with a precondition error, before the loop,
\* before any call of align and before any mean.
C6_Precondition ==
  (pc = "failed" /\ N = 0) =>
    (err = "PreconditionError" /\ n_steps = 0 /\ n_align = 0 /\ n_mean = 0)

\* C7 as stated: on the first check the sentinel is further from the
\* reference than the tolerance, so the body runs at least once.
C7_Original ==
  /\ (pc = "while" /\ n_steps = 0) => NormSq(ref_v, old_ref_v) > TolSq
  /\ pc = "done" => n_steps >= 1

\* C7 amended: the same, for meshes that have at least one coordinate.
C7_FirstCheck ==
  /\ (pc = "while" /\ n_steps = 0 /\ Len(ref_v) >= 1) => NormSq(ref_v, old_ref_v) > TolSq
  /\ (pc = "done" /\ Len(ref_v) >= 1) => n_steps >= 1

C7_Witness == pc = "done" /\ Len(ref_v) >= 1 /\ n_steps = 1

\* C8: during the pass the reference is the one the iteration began with and
\* every mesh already written was aligned onto it.
C8_SameReference ==
  pc = "for" =>
    /\ ref_v = iter_ref
    /\ \A j \in Meshes : j < i => AlignedInIter(j)

C8_Witness ==
  /\ pc = "for" /\ n_steps = 1 /\ N >= 2 /\ i > N
  /\ surf[1] # iter_surf[1] /\ iter_ref = iter_surf[1]

\* C9: after an iteration the reference is, coordinate by coordinate, the
\* mean of the meshes as the pass left them, every mesh has been rewritten,
\* and the previous reference is the reference the iteration began with.
C9_Mean ==
  (pc = "while" /\ n_steps >= 1) =>
    /\ \A k \in 1..Len(ref_v) :
         ref_v[k] * N = SumTo([j \in Meshes |-> surf[j][k]], N)
    /\ Len(ref_v) = Len(surf[1])
    /\ \A j \in Meshes : AlignedInIter(j)
    /\ old_ref_v = iter_ref

C9_Witness ==
  /\ pc = "while" /\ n_steps >= 1 /\ N >= 2 /\ surf # iter_surf
  /\ ref_v # iter_ref /\ ~AllSame(surf)

\* the orders in which the meshes of one pass can be processed
Orders(n) == {f \in [1..n -> 1..n] : \A a, b \in 1..n : a # b => f[a] # f[b]}

\* the meshes after the per-mesh step has run for order[1], ..., order[m]
RECURSIVE PassInOrder(_, _, _, _, _)
PassInOrder(p, s, r, order, m) ==
  IF m = 0 THEN s ELSE AlignMeshAt(p, PassInOrder(p, s, r, order, m - 1), r, order[m])

\* C10: at the end of a pass the meshes, and so the mean about to be taken,
\* are what the per-mesh step yields in any order of the meshes.
C10_OrderIndependent ==
  (pc = "for" /\ i > N) =>
    \A order \in Orders(N) :
      /\ PassInOrder(prim, iter_surf, iter_ref, order, N) = surf
      /\ Mean(PassInOrder(prim, iter_surf, iter_ref, order, N)) = Mean(surf)

C10_Witness ==
  /\ pc = "for" /\ i > N /\ N >= 3 /\ n_steps >= 2
  /\ surf[2] # iter_surf[2] /\ surf[3] = iter_surf[3]

====
